---- MODULE Spec2Model ----
(***************************************************************************)
(* Model of the three Google Sheets command line programs                  *)
(*   clear_data.py, download_file.py, upload_file.py                       *)
(* Each run of a program is a linear pipeline of remote calls.  A run is   *)
(* a process of the model; the Google Drive / Sheets service is the        *)
(* environment: every remote call either answers or raises.                *)
(*                                                                         *)
(* Python values: strings are TLA+ strings, None is the string None below  *)
(* (no input of the model is that string), lists are sequences.            *)
(***************************************************************************)
EXTENDS Integers, Sequences, FiniteSets, TLC

\* ------------------------------------------------------------------ bounds

\* Longest shared-drive listing the Drive service answers with.
MaxDrives == 2
\* Longest file listing the Drive service answers with.
MaxFiles == 2
\* Most rows of a values response (download) or of a parsed CSV (upload).
MaxRows == 2

\* ------------------------------------------------------- program constants

\* main: a name at least this long is taken to be a spreadsheet ID.
SpreadsheetIdLen == 44

None == "<None>"

DefaultCellRange == "A1:ZZZ5000000"

Runs == {1, 2}

\* ------------------------------------------------------------ python values

\* Python truthiness of an optional string.
Truthy(v) == v # None /\ v # ""

Char(s, i) == SubSeq(s, i, i)

RECURSIVE LStripSlash(_)
LStripSlash(s) ==
    IF Len(s) > 0 /\ Char(s, 1) = "/" THEN LStripSlash(Tail(s)) ELSE s

RECURSIVE RStripSlash(_)
RStripSlash(s) ==
    IF Len(s) > 0 /\ Char(s, Len(s)) = "/"
    THEN RStripSlash(SubSeq(s, 1, Len(s) - 1))
    ELSE s

\* str.strip('/')
StripSlash(s) == RStripSlash(LStripSlash(s))

\* str.split('/'): the components of s, cur being the component in progress.
RECURSIVE SplitSlash(_, _)
SplitSlash(s, cur) ==
    IF Len(s) = 0 THEN <<cur>>
    ELSE IF Char(s, 1) = "/" THEN <<cur>> \o SplitSlash(Tail(s), "")
    ELSE SplitSlash(Tail(s), cur \o Char(s, 1))

\* The loop of posixpath.normpath over the components of a relative path.
RECURSIVE NormComps(_, _)
NormComps(comps, new) ==
    IF comps = <<>> THEN new
    ELSE LET comp == Head(comps)
             rest == Tail(comps)
         IN  IF comp = "" \/ comp = "." THEN NormComps(rest, new)
             ELSE IF comp # ".." \/ new = <<>> \/ new[Len(new)] = ".."
                  THEN NormComps(rest, Append(new, comp))
                  ELSE NormComps(rest, SubSeq(new, 1, Len(new) - 1))

RECURSIVE JoinSlash(_)
JoinSlash(comps) ==
    IF comps = <<>> THEN ""
    ELSE IF Len(comps) = 1 THEN comps[1]
    ELSE comps[1] \o "/" \o JoinSlash(Tail(comps))

\* os.path.normpath of a path that does not start with '/'.
Normpath(path) ==
    LET joined == JoinSlash(NormComps(SplitSlash(path, ""), <<>>))
    IN  IF joined = "" THEN "." ELSE joined

\* clean_folder_name: strip('/'), then normpath unless empty.
clean_folder_name(folder_name) ==
    LET stripped == StripSlash(folder_name)
    IN  IF stripped # "" THEN Normpath(stripped) ELSE stripped

\* ------------------------------------------------------------------ inputs

\* A string of exactly SpreadsheetIdLen characters, shaped like a spreadsheet ID.
Id44 == "1BxiMVs0XRA5nFMdKvBdBZjgmUUqptlbs74OgvE2upms"

\* The same, one character short.
Name43 == SubSeq(Id44, 1, Len(Id44) - 1)

\* --destination-file-name / --source-file-name as typed.
FileNames == {"Report", Id44, "/" \o Name43 \o "/", "ids//" \o Id44}

\* --service-account: inline JSON, or the path of a key file.
Credentials == {"{\"type\": \"service_account\"}", "/keys/sa.json"}

\* --tab-name (default None).
TabNames == {None, "", "Data"}

\* --drive (default None).
DriveNames == {None, "Team"}

\* --cell-range as typed ('' falls back to the default in main).
CellRanges == {"", "B2:C3"}

\* --starting-cell as typed ('' falls back to A1 in main).
StartingCells == {"", "B2"}

ClearArgs ==
    [cmd : {"clear"}, credentials : Credentials, file_name : FileNames,
     tab_name : TabNames, cell_range : CellRanges, starting_cell : {"A1"},
     drive : DriveNames]

DownloadArgs ==
    [cmd : {"download"}, credentials : Credentials, file_name : FileNames,
     tab_name : TabNames, cell_range : CellRanges, starting_cell : {"A1"},
     drive : DriveNames]

UploadArgs ==
    [cmd : {"upload"}, credentials : Credentials, file_name : FileNames,
     tab_name : TabNames, cell_range : {DefaultCellRange},
     starting_cell : StartingCells, drive : DriveNames]

ArgSet == ClearArgs \cup DownloadArgs \cup UploadArgs

\* What the remote service may answer.
SharedDrives ==
    {[name |-> "Team", id |-> "d1"], [name |-> "Team", id |-> "d2"],
     [name |-> "Other", id |-> "d3"]}

DriveListings == UNION {[1..n -> SharedDrives] : n \in 0..MaxDrives}

FileIds == {"id1", "id2"}

FileListings == UNION {[1..n -> FileIds] : n \in 0..MaxFiles}

\* A row: no cell (a blank line), one cell, two cells.
Rows == {<<>>, <<"">>, <<"a,b">>, <<"", "">>, <<"", "a,b">>}

RowLists == UNION {[1..n -> Rows] : n \in 0..MaxRows}

\* The NUL character of a line of the source file.
NUL == "NUL"

\* A line of the source CSV file, character by character, line break
\* included: a blank line, "", "a,b" quoted, a lone comma, and a line with
\* an embedded NUL.
CsvLines ==
    { <<"\n">>,
      <<"\"", "\"", "\n">>,
      <<"\"", "a", ",", "b", "\"", "\n">>,
      <<",", "\n">>,
      <<",", "\"", "a", NUL, ",", "b", "\"", "\n">> }

\* What the source CSV file may hold.
CsvContents == UNION {[1..n -> CsvLines] : n \in 0..MaxRows}

\* Tab titles of the target spreadsheet before the run.
InitialTabs == {{"Sheet1"}, {"Sheet1", "Data"}}

\* The title the service gives a sheet added without one.
DefaultTitle == "Sheet2"

\* How a remote call fails: an HttpError whose JSON body says the workbook is
\* above the cell limit, an HttpError with another JSON body, an HttpError
\* whose body is not JSON, an error without a body (socket timeout, ...).
ErrKinds == {"limit", "http", "nonjson", "transport"}

\* How the addSheet request fails (a title already taken, an unknown ID):
\* add_workbook treats every failure alike.
AddSheetErrKinds == {"http"}

\* ------------------------------------------------------------------- state

VARIABLES
    pc,              \* where each run stands
    args,            \* get_args()
    tmp_file,        \* main: path of the temporary credential file, or None
    tmp_files,       \* file system: the temporary files that exist
    file_name,       \* main: clean_folder_name(args.file_name)
    drives,          \* get_shared_drive_id: drives['drives']
    drive_id,        \* get_spreadsheet_id_by_name: drive_id
    resolved,        \* main: what get_spreadsheet_id_by_name returned
    spreadsheet_id,  \* main / upload_google_sheets_file: spreadsheet_id
    sheets,          \* check_workbook_exists: titles of spreadsheet['sheets']
    workbook_exists, \* result of check_workbook_exists
    values,          \* download_google_sheet_file: sheet['values']
    source_csv,      \* file system: the contents the source CSV may have
    reader,          \* upload_google_sheets_file: the rows csv.reader yields
    data,            \* upload_google_sheets_file: data
    local_file,      \* file system: the CSV download writes
    out,             \* what the run printed
    outcome,         \* running | returned | SystemExit | raised
    exception,       \* the exception that left main, or None
    remote_tabs,     \* service: tab titles of the target spreadsheet
    calls            \* service: every request received, in order

vars ==
    <<pc, args, tmp_file, tmp_files, file_name, drives, drive_id, resolved,
      spreadsheet_id, sheets, workbook_exists, values, source_csv, reader,
      data, local_file, out, outcome, exception, remote_tabs, calls>>

\* One request, as the service sees it.
Call(r, op, id, arg, corpora, driveId, vals, status) ==
    [run |-> r, op |-> op, spreadsheetId |-> id, arg |-> arg,
     corpora |-> corpora, driveId |-> driveId, values |-> vals,
     status |-> status]

MutatingOps == {"create", "addSheet", "clear", "write"}

NoFile == [exists |-> FALSE, rows |-> <<>>]

TmpPath(r) == IF r = 1 THEN "/tmp/tmp1" ELSE "/tmp/tmp2"

InitWith(as, pcs, tabs) ==
    /\ args = as
    /\ pc = pcs
    /\ remote_tabs = tabs
    /\ tmp_file = [r \in Runs |-> None]
    /\ tmp_files = {}
    /\ file_name = [r \in Runs |-> ""]
    /\ drives = [r \in Runs |-> <<>>]
    /\ drive_id = [r \in Runs |-> None]
    /\ resolved = [r \in Runs |-> None]
    /\ spreadsheet_id = [r \in Runs |-> None]
    /\ sheets = [r \in Runs |-> {}]
    /\ workbook_exists = [r \in Runs |-> FALSE]
    /\ values = [r \in Runs |-> <<>>]
    /\ reader = [r \in Runs |-> <<>>]
    /\ data = [r \in Runs |-> <<>>]
    /\ local_file = [r \in Runs |-> NoFile]
    /\ out = [r \in Runs |-> <<>>]
    /\ outcome = [r \in Runs |-> "running"]
    /\ exception = [r \in Runs |-> None]
    /\ calls = <<>>

\* One invocation of one of the three programs.
Init ==
    \E a \in ArgSet, tabs \in InitialTabs :
        /\ InitWith([r \in Runs |-> a],
                    [r \in Runs |-> IF r = 1 THEN "start" ELSE "off"],
                    tabs)
        /\ source_csv = CsvContents

\* -------------------------------------------------------- program functions

\* set_environment_variables: json.loads(credentials) succeeds on the text of
\* a JSON object and raises on a file path.
JsonLoadsOk(credentials) == Len(credentials) > 0 /\ Char(credentials, 1) = "{"

\* get_shared_drive_id: the loop over drives['drives'], from drive_id.
RECURSIVE DriveLoop(_, _, _)
DriveLoop(listing, drive, found) ==
    IF listing = <<>> THEN found
    ELSE DriveLoop(Tail(listing), drive,
                   IF Head(listing).name = drive THEN Head(listing).id
                   ELSE found)

\* get_shared_drive_id with a break at the first match.
RECURSIVE DriveLoopBreak(_, _)
DriveLoopBreak(listing, drive) ==
    IF listing = <<>> THEN None
    ELSE IF Head(listing).name = drive THEN Head(listing).id
    ELSE DriveLoopBreak(Tail(listing), drive)

get_shared_drive_id_FirstMatch(listing, drive) == DriveLoopBreak(listing, drive)

get_shared_drive_id(listing, drive) == DriveLoop(listing, drive, None)

\* get_spreadsheet_id_by_name: the request of files().list.
FilesRequest(r, name, drive, driveId, status) ==
    IF Truthy(drive)
    THEN Call(r, "files.list", None, name, "drive", driveId, <<>>, status)
    ELSE Call(r, "files.list", None, name, None, None, <<>>, status)

\* get_spreadsheet_id_by_name: the loop over results['files'].
FirstFile(files) == IF files = <<>> THEN None ELSE files[1]

\* NameIsId with the threshold one too low.
NameIsId_OneShort(name) == Len(name) >= SpreadsheetIdLen - 1

\* NameIsId with > for >=.
NameIsId_Strict(name) == Len(name) > SpreadsheetIdLen

\* main of clear_data.py and upload_file.py: a name that resolved to nothing
\* stands for the ID when it is long enough.
NameIsId(name) == Len(name) >= SpreadsheetIdLen

\* main, after get_spreadsheet_id_by_name returned found: the spreadsheet_id
\* main goes on with, or None when main exits.
MainSpreadsheetId(cmd, name, found) ==
    IF Truthy(found) THEN found
    ELSE IF cmd \in {"clear", "upload"} /\ NameIsId(name) THEN name
    ELSE None

\* check_workbook_exists that never finds the tab.
check_workbook_exists_Never(titles, tab_name) == FALSE

\* check_workbook_exists that finds any tab as soon as there is a sheet.
check_workbook_exists_AnySheet(titles, tab_name) == titles # {}

\* check_workbook_exists: the list comprehension over the sheets' titles.
check_workbook_exists(titles, tab_name) ==
    {t \in titles : t = tab_name} # {}

\* hasattr(e, 'content')
HasContent(e) == e \in {"limit", "http", "nonjson"}

\* upload_google_sheets_file, except branch: what it prints for e.
UploadHandlerPrints(e) ==
    IF e = "FileNotFoundError" THEN <<"File does not exist.">>
    ELSE IF HasContent(e)
         THEN IF e = "limit" THEN <<"Failed to upload: too large (5,000,000 cells)">>
              ELSE <<>>
    ELSE <<"Failed to upload spreadsheet">>

\* An except branch that calls json.loads(e.content): the exception leaving it.
ContentHandlerRaises(e) == IF e = "nonjson" THEN "JSONDecodeError" ELSE e

\* upload_google_sheets_file, except branch: the exception leaving it.
UploadHandlerRaises(e) ==
    IF e # "FileNotFoundError" /\ HasContent(e) THEN ContentHandlerRaises(e)
    ELSE e

\* clear_google_sheet, except branch: what it prints for e.
ClearHandlerPrints(e) ==
    IF HasContent(e) THEN <<>> ELSE <<"Failed to clear spreadsheet">>

\* upload_google_sheets_file: line.replace("\0", "")
RECURSIVE ReplaceNul(_)
ReplaceNul(line) ==
    IF line = <<>> THEN <<>>
    ELSE IF Head(line) = NUL THEN ReplaceNul(Tail(line))
    ELSE <<Head(line)>> \o ReplaceNul(Tail(line))

\* csv.reader (excel dialect) on one line: st is the state of the parser,
\* cur the field in progress, fields the fields finished.
RECURSIVE ParseLine(_, _, _, _)
ParseLine(line, st, cur, fields) ==
    IF line = <<>>
    THEN IF st = "start_record" THEN <<>> ELSE Append(fields, cur)
    ELSE LET c == Head(line)
             rest == Tail(line)
         IN  CASE st \in {"start_record", "start_field"} ->
                    IF c \in {"\n", "\r"}
                    THEN IF st = "start_record" THEN <<>>
                         ELSE Append(fields, "")
                    ELSE IF c = "\"" THEN ParseLine(rest, "in_quoted", "", fields)
                    ELSE IF c = ","
                         THEN ParseLine(rest, "start_field", "",
                                        Append(fields, ""))
                    ELSE ParseLine(rest, "in_field", c, fields)
               [] st = "in_field" ->
                    IF c \in {"\n", "\r"} THEN Append(fields, cur)
                    ELSE IF c = ","
                         THEN ParseLine(rest, "start_field", "",
                                        Append(fields, cur))
                    ELSE ParseLine(rest, "in_field", cur \o c, fields)
               [] st = "in_quoted" ->
                    IF c = "\"" THEN ParseLine(rest, "quote_in_quoted", cur, fields)
                    ELSE ParseLine(rest, "in_quoted", cur \o c, fields)
               [] st = "quote_in_quoted" ->
                    IF c = "\"" THEN ParseLine(rest, "in_quoted", cur \o "\"", fields)
                    ELSE IF c = ","
                         THEN ParseLine(rest, "start_field", "",
                                        Append(fields, cur))
                    ELSE IF c \in {"\n", "\r"} THEN Append(fields, cur)
                    ELSE ParseLine(rest, "in_field", cur \o c, fields)

\* csv.reader over the lines of the file, NUL characters removed: one row a
\* line (no quoted field of the inputs spans lines).
csv_reader(lines) ==
    [i \in 1..Len(lines) |->
        ParseLine(ReplaceNul(lines[i]), "start_record", "", <<>>)]

\* upload_google_sheets_file: the rows kept, set(row) != {""}.
RowCellSet(row) == {row[i] : i \in 1..Len(row)}

RECURSIVE StripEmptyRows(_)
StripEmptyRows(rows) ==
    IF rows = <<>> THEN <<>>
    ELSE IF RowCellSet(Head(rows)) # {""}
         THEN <<Head(rows)>> \o StripEmptyRows(Tail(rows))
         ELSE StripEmptyRows(Tail(rows))

\* upload_google_sheets_file: the destination range.
UploadRange(starting_cell, tab_name) ==
    LET base == IF starting_cell # "" THEN starting_cell \o ":ZZZ5000000"
                ELSE DefaultCellRange
    IN  IF Truthy(tab_name) THEN tab_name \o "!" \o base ELSE base

\* clear_google_sheet / download_google_sheet_file: tab!range when a tab is given.
TabRange(cell_range, tab_name) ==
    IF Truthy(tab_name) THEN tab_name \o "!" \o cell_range ELSE cell_range

\* main: 'A1:ZZZ5000000' if not args.cell_range else args.cell_range
MainCellRange(cell_range) ==
    IF cell_range = "" THEN DefaultCellRange ELSE cell_range

\* main: "A1" if not args.starting_cell else args.starting_cell
MainStartingCell(starting_cell) ==
    IF starting_cell = "" THEN "A1" ELSE starting_cell

\* csv.writer (excel dialect): a field is quoted when it holds the delimiter,
\* the quote character or a line break; quotes inside are doubled.
NeedsQuote(cell) ==
    \E i \in 1..Len(cell) : Char(cell, i) \in {",", "\"", "\n", "\r"}

RECURSIVE DoubleQuotes(_)
DoubleQuotes(cell) ==
    IF Len(cell) = 0 THEN ""
    ELSE (IF Char(cell, 1) = "\"" THEN "\"\"" ELSE Char(cell, 1))
         \o DoubleQuotes(Tail(cell))

CsvField(cell) ==
    IF NeedsQuote(cell) THEN "\"" \o DoubleQuotes(cell) \o "\"" ELSE cell

RECURSIVE CsvJoin(_)
CsvJoin(row) ==
    IF row = <<>> THEN ""
    ELSE IF Len(row) = 1 THEN CsvField(row[1])
    ELSE CsvField(row[1]) \o "," \o CsvJoin(Tail(row))

\* csv.writer.writerow: one record; a lone empty field is written as "".
CsvRecord(row) == IF row = <<"">> THEN "\"\"" ELSE CsvJoin(row)

\* writerows that loses the last row.
writerows_DropLast(rows) == [i \in 1..(Len(rows) - 1) |-> CsvRecord(rows[i])]

\* csv.writer.writerows(values)
writerows(rows) == [i \in 1..Len(rows) |-> CsvRecord(rows[i])]

\* The service parses tab!range: it answers only when the tab exists.
ServiceAcceptsRange(tabs, tab_name) == ~Truthy(tab_name) \/ tab_name \in tabs

\* ----------------------------------------------------------------- actions

Goto(r, label) ==
    /\ pc' = [pc EXCEPT ![r] = label]
    /\ UNCHANGED <<outcome, exception>>

\* The run ends: main returned, raised SystemExit(1), or an exception left it.
Ends(r, how, exc) ==
    /\ pc' = [pc EXCEPT ![r] = "done"]
    /\ outcome' = [outcome EXCEPT ![r] = how]
    /\ exception' = [exception EXCEPT ![r] = exc]

Say(r, msgs) == out' = [out EXCEPT ![r] = @ \o msgs]

\* The exit status of the process.
ExitCode(how) == IF how = "returned" THEN 0 ELSE 1

\* main, head: set_environment_variables and clean_folder_name.
MainBegin(r) ==
    LET inline == JsonLoadsOk(args[r].credentials)
    IN  /\ tmp_file' = [tmp_file EXCEPT ![r] =
                            IF inline THEN TmpPath(r) ELSE None]
        /\ tmp_files' = IF inline THEN tmp_files \cup {TmpPath(r)}
                        ELSE tmp_files
        /\ file_name' = [file_name EXCEPT ![r] =
                            clean_folder_name(args[r].file_name)]

EnvPrints(r) ==
    IF JsonLoadsOk(args[r].credentials)
    THEN <<"Storing json credentials temporarily">>
    ELSE <<"Using specified json credentials file">>

\* main, after get_service: the resolver starts with the drive when one is given.
ResolverEntry(r) == IF Truthy(args[r].drive) THEN "drives" ELSE "files"

\* main, tail: the temporary credential file is removed, main returns.
MainEnd(r, msgs) ==
    /\ Say(r, msgs \o (IF Truthy(tmp_file[r])
                       THEN <<"Removing temporary credentials file">>
                       ELSE <<>>))
    /\ tmp_files' = IF Truthy(tmp_file[r]) THEN tmp_files \ {tmp_file[r]}
                    ELSE tmp_files
    /\ Ends(r, "returned", None)

\* get_service: building the clients works or raises.
GetService(r) ==
    \/ /\ Say(r, EnvPrints(r))
       /\ Goto(r, ResolverEntry(r))
    \/ /\ Say(r, EnvPrints(r) \o <<"Error accessing Google Drive">>)
       /\ Ends(r, "raised", "credentials")

\* clear_data.py main, up to get_service.
ClearMain(r) ==
    /\ pc[r] = "start"
    /\ args[r].cmd = "clear"
    /\ MainBegin(r)
    /\ GetService(r)
    /\ UNCHANGED <<args, source_csv, reader, drives, drive_id, resolved, spreadsheet_id, sheets,
                   workbook_exists, values, data, local_file, remote_tabs,
                   calls>>

\* download_file.py main, up to get_service (the destination folder it makes
\* is not part of the state).
DownloadMain(r) ==
    /\ pc[r] = "start"
    /\ args[r].cmd = "download"
    /\ MainBegin(r)
    /\ GetService(r)
    /\ UNCHANGED <<args, source_csv, reader, drives, drive_id, resolved, spreadsheet_id, sheets,
                   workbook_exists, values, data, local_file, remote_tabs,
                   calls>>

\* upload_file.py main, up to get_service: the source file must exist.
UploadMain(r) ==
    /\ pc[r] = "start"
    /\ args[r].cmd = "upload"
    /\ MainBegin(r)
    /\ \/ /\ Say(r, EnvPrints(r) \o <<"source file does not exist">>)
          /\ Ends(r, "SystemExit", "SystemExit")
       \/ GetService(r)
    /\ UNCHANGED <<args, source_csv, reader, drives, drive_id, resolved, spreadsheet_id, sheets,
                   workbook_exists, values, data, local_file, remote_tabs,
                   calls>>

\* get_spreadsheet_id_by_name, first half: get_shared_drive_id.
GetSharedDriveId(r) ==
    /\ pc[r] = "drives"
    /\ \/ \E listing \in DriveListings :
            /\ drives' = [drives EXCEPT ![r] = listing]
            /\ drive_id' = [drive_id EXCEPT ![r] =
                               get_shared_drive_id(listing, args[r].drive)]
            /\ calls' = Append(calls, Call(r, "drives.list", None, None, None,
                                           None, <<>>, "ok"))
            /\ Goto(r, "files")
            /\ UNCHANGED out
       \/ \E e \in ErrKinds :
            /\ calls' = Append(calls, Call(r, "drives.list", None, None, None,
                                           None, <<>>, e))
            /\ Say(r, <<"Failed to fetch spreadsheetId">>)
            /\ Ends(r, "raised", e)
            /\ UNCHANGED <<drives, drive_id>>
    /\ UNCHANGED <<args, source_csv, reader, tmp_file, tmp_files, file_name, resolved,
                   spreadsheet_id, sheets, workbook_exists, values, data,
                   local_file, remote_tabs>>

\* Where main goes once it holds a spreadsheet_id.
AfterResolve(cmd, tab_name) ==
    IF cmd = "clear" THEN "clear"
    ELSE IF cmd = "upload" THEN "check"
    ELSE IF Truthy(tab_name) THEN "check" ELSE "read"

\* get_spreadsheet_id_by_name, second half (files().list), and main's test
\* of what it returned.
GetSpreadsheetIdByName(r) ==
    /\ pc[r] = "files"
    /\ drives' = [drives EXCEPT ![r] = <<>>]
    /\ \/ \E files \in FileListings :
            LET id == MainSpreadsheetId(args[r].cmd, file_name[r],
                                        FirstFile(files))
            IN  /\ calls' = Append(calls,
                        FilesRequest(r, file_name[r], args[r].drive,
                                     drive_id[r], "ok"))
                /\ resolved' = [resolved EXCEPT ![r] = FirstFile(files)]
                /\ spreadsheet_id' = [spreadsheet_id EXCEPT ![r] = id]
                /\ IF Truthy(id)
                   THEN /\ Goto(r, AfterResolve(args[r].cmd, args[r].tab_name))
                        /\ UNCHANGED out
                   ELSE /\ Say(r, <<"The spreadsheet does not exist">>)
                        /\ Ends(r, "SystemExit", "SystemExit")
       \/ \E e \in ErrKinds :
            /\ calls' = Append(calls,
                    FilesRequest(r, file_name[r], args[r].drive, drive_id[r], e))
            /\ Say(r, <<"Failed to fetch spreadsheetId">>)
            /\ Ends(r, "raised", e)
            /\ UNCHANGED <<resolved, spreadsheet_id>>
    /\ UNCHANGED <<args, source_csv, reader, tmp_file, tmp_files, file_name, drive_id, sheets,
                   workbook_exists, values, data, local_file, remote_tabs>>

\* The ID of a spreadsheet the service creates.
CreatedId == "new1"

\* clear_google_sheet / upload_google_sheets_file: spreadsheets().create when
\* no spreadsheet_id was passed in.
CreateCalls(r, initial_range) ==
    IF ~Truthy(spreadsheet_id[r])
    THEN <<Call(r, "create", None, file_name[r], None, None, <<>>, "ok")>>
    ELSE <<>>

IdAfterCreate(r) ==
    IF ~Truthy(spreadsheet_id[r]) THEN CreatedId ELSE spreadsheet_id[r]

\* clear_google_sheet, then the tail of main.
ClearGoogleSheet(r) ==
    LET cell_range == TabRange(MainCellRange(args[r].cell_range),
                               args[r].tab_name)
        request(status) == Call(r, "clear", IdAfterCreate(r), cell_range,
                                None, None, <<>>, status)
    IN  /\ pc[r] = "clear"
        /\ spreadsheet_id' = [spreadsheet_id EXCEPT ![r] = IdAfterCreate(r)]
        /\ \/ /\ ServiceAcceptsRange(remote_tabs, args[r].tab_name)
              /\ calls' = calls \o CreateCalls(r, cell_range)
                                \o <<request("ok")>>
              /\ MainEnd(r, <<"succcessfully cleared">>)
           \/ \E e \in ErrKinds :
                /\ calls' = calls \o CreateCalls(r, cell_range)
                                  \o <<request(e)>>
                /\ Say(r, ClearHandlerPrints(e))
                /\ Ends(r, "raised",
                        IF HasContent(e) THEN ContentHandlerRaises(e) ELSE e)
                /\ UNCHANGED tmp_files
        /\ UNCHANGED <<args, source_csv, reader, tmp_file, file_name, drives, drive_id, resolved,
                       sheets, workbook_exists, values, data, local_file,
                       remote_tabs>>

\* upload_google_sheets_file, up to the test of workbook_exists.
UploadCheckWorkbook(r) ==
    LET request(status) == Call(r, "get", IdAfterCreate(r), None, None, None,
                                <<>>, status)
        creates == CreateCalls(r, MainStartingCell(args[r].starting_cell))
    IN  /\ pc[r] = "check"
        /\ args[r].cmd = "upload"
        /\ spreadsheet_id' = [spreadsheet_id EXCEPT ![r] = IdAfterCreate(r)]
        /\ \/ /\ calls' = calls \o creates \o <<request("ok")>>
              /\ sheets' = [sheets EXCEPT ![r] = remote_tabs]
              /\ workbook_exists' = [workbook_exists EXCEPT ![r] =
                     check_workbook_exists(remote_tabs, args[r].tab_name)]
              /\ Goto(r, IF check_workbook_exists(remote_tabs, args[r].tab_name)
                         THEN "csv" ELSE "add")
              /\ UNCHANGED out
           \/ \E e \in ErrKinds :
                /\ calls' = calls \o creates \o <<request(e)>>
                /\ Say(r, <<"Failed to check spreadsheet for a sheet">>
                          \o UploadHandlerPrints(e))
                /\ Ends(r, "raised", UploadHandlerRaises(e))
                /\ UNCHANGED <<sheets, workbook_exists>>
        /\ UNCHANGED <<args, source_csv, reader, tmp_file, tmp_files, file_name, drives, drive_id,
                       resolved, values, data, local_file, remote_tabs>>

\* add_workbook, except branch made to raise e again after the print.
add_workbook_except_Reraise(r, e) ==
    /\ Say(r, <<"print(e)">>)
    /\ Ends(r, "raised", e)

\* add_workbook, except branch: print(e), and the function returns to
\* upload_google_sheets_file, which goes on with the reading of the CSV.
add_workbook_except(r, e) ==
    /\ Say(r, <<"print(e)">>)
    /\ Goto(r, "csv")

\* add_workbook made to hold a lock over the spreadsheet: it looks at the
\* sheets again and sends no request for a tab that is there by now.
AddWorkbook_Locked(r) ==
    LET title == args[r].tab_name
        request(status) == Call(r, "addSheet", spreadsheet_id[r], title, None,
                                None, <<>>, status)
    IN  /\ pc[r] = "add"
        /\ IF check_workbook_exists(remote_tabs, title)
           THEN UNCHANGED <<remote_tabs, calls>>
           ELSE /\ remote_tabs' = remote_tabs \cup {title}
                /\ calls' = Append(calls, request("ok"))
        /\ Goto(r, "csv")
        /\ UNCHANGED <<args, source_csv, reader, tmp_file, tmp_files,
                       file_name, drives, drive_id, resolved, spreadsheet_id,
                       sheets, workbook_exists, values, data, local_file, out>>

\* add_workbook: the batchUpdate with one addSheet request; a failure is
\* printed and not raised.
AddWorkbook(r) ==
    LET title == args[r].tab_name
        request(status) == Call(r, "addSheet", spreadsheet_id[r], title, None,
                                None, <<>>, status)
        added == IF Truthy(title) THEN title ELSE DefaultTitle
    IN  /\ pc[r] = "add"
        /\ \/ /\ added \notin remote_tabs
              /\ remote_tabs' = remote_tabs \cup {added}
              /\ calls' = Append(calls, request("ok"))
              /\ Goto(r, "csv")
              /\ UNCHANGED out
           \/ \E e \in AddSheetErrKinds :
                /\ calls' = Append(calls, request(e))
                /\ add_workbook_except(r, e)
                /\ UNCHANGED remote_tabs
        /\ UNCHANGED <<args, source_csv, reader, tmp_file, tmp_files,
                       file_name, drives, drive_id, resolved, spreadsheet_id,
                       sheets, workbook_exists, values, data, local_file>>

\* upload_google_sheets_file: the source file is opened and read through
\* csv.reader, the rows that are not empty are collected in data.
UploadReadCsv(r) ==
    /\ pc[r] = "csv"
    /\ \/ /\ Say(r, UploadHandlerPrints("FileNotFoundError"))
          /\ Ends(r, "raised", UploadHandlerRaises("FileNotFoundError"))
          /\ UNCHANGED <<reader, data>>
       \/ \E lines \in source_csv :
            /\ reader' = [reader EXCEPT ![r] = csv_reader(lines)]
            /\ data' = [data EXCEPT ![r] = StripEmptyRows(csv_reader(lines))]
            /\ Goto(r, "write")
            /\ UNCHANGED out
    /\ UNCHANGED <<args, source_csv, tmp_file, tmp_files, file_name, drives,
                   drive_id, resolved, spreadsheet_id, sheets, workbook_exists,
                   values, local_file, remote_tabs, calls>>

\* upload_google_sheets_file from the range on: the values batchUpdate, then
\* the tail of main.
UploadWrite(r) ==
    LET _range == UploadRange(MainStartingCell(args[r].starting_cell),
                              args[r].tab_name)
        request(status) == Call(r, "write", spreadsheet_id[r], _range,
                                None, None, data[r], status)
    IN  /\ pc[r] = "write"
        /\ reader' = [reader EXCEPT ![r] = <<>>]
        /\ \/ /\ ServiceAcceptsRange(remote_tabs, args[r].tab_name)
              /\ calls' = Append(calls, request("ok"))
              /\ MainEnd(r, <<"successfully uploaded">>)
           \/ \E e \in ErrKinds :
                /\ calls' = Append(calls, request(e))
                /\ Say(r, UploadHandlerPrints(e))
                /\ Ends(r, "raised", UploadHandlerRaises(e))
                /\ UNCHANGED tmp_files
        /\ UNCHANGED <<args, source_csv, tmp_file, file_name, drives, drive_id,
                       resolved, spreadsheet_id, sheets, workbook_exists,
                       values, data, local_file, remote_tabs>>

\* download_google_sheet_file: the tab check made when a tab is given.
DownloadCheckWorkbook(r) ==
    LET request(status) == Call(r, "get", spreadsheet_id[r], None, None, None,
                                <<>>, status)
    IN  /\ pc[r] = "check"
        /\ args[r].cmd = "download"
        /\ \/ /\ calls' = Append(calls, request("ok"))
              /\ sheets' = [sheets EXCEPT ![r] = remote_tabs]
              /\ workbook_exists' = [workbook_exists EXCEPT ![r] =
                     check_workbook_exists(remote_tabs, args[r].tab_name)]
              /\ IF check_workbook_exists(remote_tabs, args[r].tab_name)
                 THEN /\ Goto(r, "read")
                      /\ UNCHANGED out
                 ELSE /\ Say(r, <<"The tab could not be found">>)
                      /\ Ends(r, "SystemExit", "SystemExit")
           \/ \E e \in ErrKinds :
                /\ calls' = Append(calls, request(e))
                /\ Say(r, <<"Failed to check workbook",
                            "Failed to download">>)
                /\ Ends(r, "raised", e)
                /\ UNCHANGED <<sheets, workbook_exists>>
        /\ UNCHANGED <<args, source_csv, reader, tmp_file, tmp_files, file_name, drives, drive_id,
                       resolved, spreadsheet_id, values, data, local_file,
                       remote_tabs>>

\* download_google_sheet_file from values().get on, then the tail of main.
\* An answer without a 'values' key and one with an empty list are both <<>>.
DownloadRead(r) ==
    LET cell_range == TabRange(MainCellRange(args[r].cell_range),
                               args[r].tab_name)
        request(status) == Call(r, "values.get", spreadsheet_id[r],
                                cell_range, None, None, <<>>, status)
    IN  /\ pc[r] = "read"
        /\ \/ \E answer \in RowLists :
                /\ ServiceAcceptsRange(remote_tabs, args[r].tab_name)
                /\ calls' = Append(calls, request("ok"))
                /\ values' = [values EXCEPT ![r] = answer]
                /\ IF answer = <<>>
                   THEN /\ MainEnd(r, <<"No values.. Not downloading">>)
                        /\ UNCHANGED local_file
                   ELSE /\ local_file' = [local_file EXCEPT ![r] =
                               [exists |-> TRUE, rows |-> writerows(answer)]]
                        /\ MainEnd(r, <<"Successfully downloaded">>)
           \/ \E e \in ErrKinds :
                /\ calls' = Append(calls, request(e))
                /\ Say(r, <<"Failed to download">>)
                /\ Ends(r, "raised", e)
                /\ UNCHANGED <<values, local_file, tmp_files>>
        /\ UNCHANGED <<args, source_csv, reader, tmp_file, file_name, drives, drive_id, resolved,
                       spreadsheet_id, sheets, workbook_exists, data,
                       remote_tabs>>

Next ==
    \E r \in Runs :
        \/ ClearMain(r)
        \/ DownloadMain(r)
        \/ UploadMain(r)
        \/ GetSharedDriveId(r)
        \/ GetSpreadsheetIdByName(r)
        \/ ClearGoogleSheet(r)
        \/ UploadCheckWorkbook(r)
        \/ AddWorkbook(r)
        \/ UploadReadCsv(r)
        \/ UploadWrite(r)
        \/ DownloadCheckWorkbook(r)
        \/ DownloadRead(r)

Spec == Init /\ [][Next]_vars

\* Two uploads started together on the same spreadsheet and the same tab,
\* which the spreadsheet does not have; each is its own process, and the
\* steps of the two interleave in any order.
RaceArgs ==
    [cmd |-> "upload", credentials |-> "/keys/sa.json", file_name |-> Id44,
     tab_name |-> "Data", cell_range |-> DefaultCellRange,
     starting_cell |-> "", drive |-> None]

RaceCsv == {<< <<",", "\"", "a", NUL, ",", "b", "\"", "\n">> >>}

InitRace ==
    /\ InitWith([r \in Runs |-> RaceArgs], [r \in Runs |-> "start"], {"Sheet1"})
    /\ source_csv = RaceCsv

NextRace ==
    \E r \in Runs :
        \/ UploadMain(r)
        \/ GetSpreadsheetIdByName(r)
        \/ UploadCheckWorkbook(r)
        \/ AddWorkbook(r)
        \/ UploadReadCsv(r)
        \/ UploadWrite(r)

SpecRace == InitRace /\ [][NextRace]_vars

\* ------------------------------------------------------------------ claims

\* The requests run r sent with one of the operations ops, as indices of calls.
CallsOf(r, ops) ==
    {i \in DOMAIN calls : calls[i].run = r /\ calls[i].op \in ops}

\* The Drive listing of run r answered, and held no file.
ListedNoFile(r) ==
    /\ \E i \in CallsOf(r, {"files.list"}) : calls[i].status = "ok"
    /\ resolved[r] = None

\* C1: in clear and download, a name shorter than 44 characters for which the
\* Drive listing returns no file ends the run with SystemExit(1), exit code
\* 1, and the run has sent no mutating request (create, addSheet, clear,
\* write).  The name is file_name as main holds it, the value the listing was
\* asked for.
C1_ShortNameNotFoundExits ==
    \A r \in Runs :
        ( /\ args[r].cmd \in {"clear", "download"}
          /\ ListedNoFile(r)
          /\ Len(file_name[r]) < SpreadsheetIdLen )
        => /\ pc[r] = "done"
           /\ outcome[r] = "SystemExit"
           /\ ExitCode(outcome[r]) = 1
           /\ CallsOf(r, MutatingOps) = {}

\* C1 witness: a clear run whose 43-character name resolved to nothing.
C1_Witness ==
    \E r \in Runs :
        /\ args[r].cmd = "clear"
        /\ ListedNoFile(r)
        /\ Len(file_name[r]) = SpreadsheetIdLen - 1
        /\ pc[r] = "done"

\* C2: in clear and upload, a name of 44 characters or more for which the
\* Drive listing returns no file becomes the spreadsheet ID: the run does not
\* exit there, every clear or write request it sends is addressed to that
\* string, a run that returns has sent one, and no create request is sent.
C2_LongNameUsedAsId ==
    \A r \in Runs :
        ( /\ args[r].cmd \in {"clear", "upload"}
          /\ ListedNoFile(r)
          /\ Len(file_name[r]) >= SpreadsheetIdLen )
        => /\ spreadsheet_id[r] = file_name[r]
           /\ outcome[r] # "SystemExit"
           /\ \A i \in CallsOf(r, {"clear", "write"}) :
                  calls[i].spreadsheetId = file_name[r]
           /\ outcome[r] = "returned"
                  => CallsOf(r, {"clear", "write"}) # {}
           /\ CallsOf(r, {"create"}) = {}

\* C2 witness: an upload run wrote to the 44-character name it was given.
C2_Witness ==
    \E r \in Runs :
        /\ args[r].cmd = "upload"
        /\ ListedNoFile(r)
        /\ Len(file_name[r]) = SpreadsheetIdLen
        /\ \E i \in CallsOf(r, {"write"}) :
               /\ calls[i].spreadsheetId = file_name[r]
               /\ calls[i].status = "ok"

\* C3, as claimed: in upload, a name shorter than 44 characters that resolves
\* to no spreadsheet makes the run create one (a create request) and go on
\* instead of failing.
C3_UploadCreatesMissingSpreadsheet ==
    \A r \in Runs :
        ( /\ args[r].cmd = "upload"
          /\ ListedNoFile(r)
          /\ Len(file_name[r]) < SpreadsheetIdLen )
        => /\ Cardinality(CallsOf(r, {"create"})) = 1
           /\ outcome[r] # "SystemExit"

\* C4: in upload, with a tab name given and the spreadsheet's tabs listed:
\* when the name is not among the titles, the run sends exactly one addSheet
\* request, with that title, and sends it before any write request; when the
\* name is among the titles, it sends no addSheet request.
C4_AddSheetOnceBeforeWrite ==
    \A r \in Runs :
        ( /\ args[r].cmd = "upload"
          /\ Truthy(args[r].tab_name)
          /\ sheets[r] # {} )
        => IF args[r].tab_name \notin sheets[r]
           THEN /\ pc[r] \in {"csv", "write", "done"}
                    => /\ Cardinality(CallsOf(r, {"addSheet"})) = 1
                       /\ \A i \in CallsOf(r, {"addSheet"}) :
                              calls[i].arg = args[r].tab_name
                /\ \A j \in CallsOf(r, {"write"}) :
                       \E i \in CallsOf(r, {"addSheet"}) : i < j
           ELSE CallsOf(r, {"addSheet"}) = {}

\* C4 witness: an upload run added the missing tab Data and then wrote.
C4_Witness ==
    \E r \in Runs :
        /\ args[r].cmd = "upload"
        /\ Truthy(args[r].tab_name)
        /\ sheets[r] # {}
        /\ args[r].tab_name \notin sheets[r]
        /\ Cardinality(CallsOf(r, {"addSheet"})) = 1
        /\ CallsOf(r, {"write"}) # {}
        /\ outcome[r] = "returned"

\* C5: in download, with a tab name given that is not among the titles of
\* the spreadsheet's tabs, the run ends with SystemExit(1), exit code 1,
\* never sends the values read, and writes no local CSV file.
C5_DownloadMissingTabExits ==
    \A r \in Runs :
        ( /\ args[r].cmd = "download"
          /\ Truthy(args[r].tab_name)
          /\ sheets[r] # {}
          /\ args[r].tab_name \notin sheets[r] )
        => /\ pc[r] = "done"
           /\ outcome[r] = "SystemExit"
           /\ ExitCode(outcome[r]) = 1
           /\ CallsOf(r, {"values.get"}) = {}
           /\ ~local_file[r].exists

\* C5 witness: a download run asked for the tab Data of a spreadsheet that
\* has only Sheet1.
C5_Witness ==
    \E r \in Runs :
        /\ args[r].cmd = "download"
        /\ args[r].tab_name = "Data"
        /\ sheets[r] = {"Sheet1"}
        /\ pc[r] = "done"

\* C6: in download, when the values read answers: with no values, no local
\* file is written and main returns (no exception, exit code 0); with a
\* non-empty list of rows, the local CSV holds one record per row, in order.
C6_DownloadWritesRowPerRow ==
    \A r \in Runs :
        ( /\ args[r].cmd = "download"
          /\ \E i \in CallsOf(r, {"values.get"}) : calls[i].status = "ok" )
        => IF values[r] = <<>>
           THEN /\ ~local_file[r].exists
                /\ outcome[r] = "returned"
                /\ exception[r] = None
                /\ ExitCode(outcome[r]) = 0
           ELSE /\ local_file[r].exists
                /\ Len(local_file[r].rows) = Len(values[r])
                /\ \A i \in 1..Len(values[r]) :
                       local_file[r].rows[i] = CsvRecord(values[r][i])

\* C6 witness: a download run wrote two different rows.
C6_Witness ==
    \E r \in Runs :
        /\ args[r].cmd = "download"
        /\ Len(values[r]) = 2
        /\ values[r][1] # values[r][2]
        /\ local_file[r].exists
        /\ outcome[r] = "returned"

\* C6 witness of the empty case: the values read answered without values.
C6_WitnessEmpty ==
    \E r \in Runs :
        /\ args[r].cmd = "download"
        /\ \E i \in CallsOf(r, {"values.get"}) : calls[i].status = "ok"
        /\ values[r] = <<>>
        /\ outcome[r] = "returned"

\* The shared-drive listing of run r answered and no drive in it has the
\* name asked for.
DriveNotMatched(r) ==
    /\ Truthy(args[r].drive)
    /\ \E i \in CallsOf(r, {"drives.list"}) : calls[i].status = "ok"
    /\ drive_id[r] = None

\* C7, as claimed: when the drive scope given matches none of the shared
\* drives, the file listing request sent is the one sent without a drive
\* scope (no corpora, no driveId).
C7_UnmatchedDriveListsUnscoped ==
    \A r \in Runs :
        DriveNotMatched(r)
        => \A i \in CallsOf(r, {"files.list"}) :
               calls[i] = FilesRequest(r, file_name[r], None, None,
                                       calls[i].status)

\* The places of the listing drives[r] whose name is the drive asked for.
Matches(r) ==
    {i \in 1..Len(drives[r]) : drives[r][i].name = args[r].drive}

\* The shared-drive listing of run r has just been searched.
DriveSearched(r) == pc[r] = "files" /\ Truthy(args[r].drive)

\* C8, as claimed: get_shared_drive_id returns the ID of the first drive of
\* the listing whose name is the one asked for, and None when there is none.
C8_FirstDriveMatchWins ==
    \A r \in Runs :
        DriveSearched(r)
        => IF Matches(r) = {} THEN drive_id[r] = None
           ELSE \E i \in Matches(r) :
                    /\ \A j \in Matches(r) : i <= j
                    /\ drive_id[r] = drives[r][i].id

\* C8, amended: get_shared_drive_id returns the ID of the last drive of the
\* listing whose name is the one asked for (the loop does not stop at a
\* match), that drive's ID when exactly one matches, None when none does.
C8_LastDriveMatchWins ==
    \A r \in Runs :
        DriveSearched(r)
        => IF Matches(r) = {} THEN drive_id[r] = None
           ELSE \E i \in Matches(r) :
                    /\ \A j \in Matches(r) : j <= i
                    /\ drive_id[r] = drives[r][i].id

\* C8 witness: two drives of the listing have the name, with different IDs.
C8_Witness ==
    \E r \in Runs :
        /\ DriveSearched(r)
        /\ \E i, j \in Matches(r) : drives[r][i].id # drives[r][j].id

\* C9, as claimed: a run that made a temporary credential file has removed
\* it when it ends, whether main returned, raised SystemExit(1) on a missing
\* spreadsheet, tab or source file, or let a remote error through.
C9_TempFileRemovedAtEnd ==
    \A r \in Runs :
        ( /\ pc[r] = "done"
          /\ Truthy(tmp_file[r])
          /\ \/ outcome[r] \in {"returned", "SystemExit"}
             \/ exception[r] \in ErrKinds )
        => tmp_file[r] \notin tmp_files

\* The remote call that failed inside upload_google_sheets_file in run r.
UploadFailedCall(r, i) ==
    /\ i \in CallsOf(r, {"create", "get", "write"})
    /\ calls[i].status \in ErrKinds

\* C10, as claimed: in upload_google_sheets_file a failed remote call is
\* printed and re-raised: the cell-limit error prints the too-large message,
\* every other remote error prints the generic Failed to upload message.
C10_UploadErrorsPrinted ==
    \A r \in Runs :
        \A i \in DOMAIN calls :
            (args[r].cmd = "upload" /\ UploadFailedCall(r, i))
            => /\ exception[r] = calls[i].status
               /\ \E k \in DOMAIN out[r] :
                      out[r][k] = IF calls[i].status = "limit"
                                  THEN "Failed to upload: too large (5,000,000 cells)"
                                  ELSE "Failed to upload spreadsheet"

\* A row with at least one cell that is not the empty string.
HasNonEmptyCell(row) == \E i \in DOMAIN row : row[i] # ""

\* C11, as claimed: the rows of the values write are exactly the parsed rows
\* that hold a non-empty cell, in their order: every row whose cells are all
\* empty is dropped, the row without cells of a blank line included.
C11_PayloadIsRowsWithContent ==
    [][\A r \in Runs :
          ( /\ pc[r] = "write"
            /\ Len(calls') = Len(calls) + 1
            /\ calls'[Len(calls')].run = r
            /\ calls'[Len(calls')].op = "write" )
          => calls'[Len(calls')].values = SelectSeq(reader[r], HasNonEmptyCell)]_vars

\* The addSheet request i of run r failed.
AddSheetFailed(r, i) ==
    /\ i \in CallsOf(r, {"addSheet"})
    /\ calls[i].status \in ErrKinds

\* C13: a failed addSheet request of an upload is printed and not raised: the
\* run goes on to the reading of the CSV and to the values write, and how it
\* ends is decided there: it returns after a write that worked, or raises
\* what the reading or the write raised.
C13_AddSheetFailureSwallowed ==
    \A r \in Runs :
        \A i \in DOMAIN calls :
            AddSheetFailed(r, i)
            => /\ \E k \in DOMAIN out[r] : out[r][k] = "print(e)"
               /\ pc[r] \in {"csv", "write", "done"}
               /\ pc[r] \in {"csv", "write"}
                    => /\ outcome[r] = "running"
                       /\ CallsOf(r, {"write"}) = {}
               /\ pc[r] = "done"
                    => \/ /\ outcome[r] = "raised"
                          /\ exception[r] = UploadHandlerRaises("FileNotFoundError")
                          /\ CallsOf(r, {"write"}) = {}
                       \/ \E j \in CallsOf(r, {"write"}) :
                            /\ j > i
                            /\ IF calls[j].status = "ok"
                               THEN outcome[r] = "returned"
                               ELSE /\ outcome[r] = "raised"
                                    /\ exception[r] = UploadHandlerRaises(calls[j].status)

\* A run whose addSheet request failed went on, wrote the values and returned.
C13_Witness ==
    \E r \in Runs :
        /\ \E i \in DOMAIN calls : AddSheetFailed(r, i)
        /\ \E j \in CallsOf(r, {"write"}) : calls[j].status = "ok"
        /\ outcome[r] = "returned"

\* C14, as claimed: an upload without a tab name sends no addSheet request:
\* its only mutating call is the values write, to the range
\* <starting cell>:ZZZ5000000 without a tab before it.
C14_NoTabNoAddSheet ==
    \A r \in Runs :
        (args[r].cmd = "upload" /\ args[r].tab_name = None)
        => \A i \in CallsOf(r, MutatingOps) :
               /\ calls[i].op = "write"
               /\ calls[i].arg = MainStartingCell(args[r].starting_cell)
                                  \o ":ZZZ5000000"

\* Run r read the sheets of its spreadsheet and its tab was not among them.
ObservedAbsent(r) ==
    /\ \E i \in CallsOf(r, {"get"}) : calls[i].status = "ok"
    /\ args[r].tab_name \notin sheets[r]

\* The addSheet requests sent for tab title of spreadsheet id.
AddSheetRequests(id, title) ==
    {i \in DOMAIN calls : /\ calls[i].op = "addSheet"
                          /\ calls[i].spreadsheetId = id
                          /\ calls[i].arg = title}

\* The runs on spreadsheet id that saw tab title missing and are past
\* add_workbook.
RunsPastAdd(id, title) ==
    {r \in Runs : /\ spreadsheet_id[r] = id
                  /\ args[r].tab_name = title
                  /\ ObservedAbsent(r)
                  /\ pc[r] \in {"csv", "write", "done"}}

\* C12: concurrent uploads are not serialized: every run that saw the tab
\* missing sends its own addSheet request, whatever the other run has done to
\* the spreadsheet since, so there are as many addSheet requests for a tab as
\* runs that saw it missing, and not one request a missing tab.
C12_EveryObserverAddsSheet ==
    \A id \in {spreadsheet_id[r] : r \in Runs} \ {None} :
        \A title \in {args[r].tab_name : r \in Runs} :
            Cardinality(AddSheetRequests(id, title))
                = Cardinality(RunsPastAdd(id, title))

\* Both runs saw the tab missing and both sent an addSheet request with the
\* same title to the same spreadsheet.
C12_Witness ==
    /\ spreadsheet_id[1] = spreadsheet_id[2]
    /\ args[1].tab_name = args[2].tab_name
    /\ ObservedAbsent(1) /\ ObservedAbsent(2)
    /\ \E i \in CallsOf(1, {"addSheet"}), j \in CallsOf(2, {"addSheet"}) :
           /\ calls[i].arg = args[1].tab_name
           /\ calls[j].arg = args[1].tab_name
           /\ calls[i].spreadsheetId = calls[j].spreadsheetId

====
